---- MODULE Spec2Model ----
(***************************************************************************)
(* The chat turn of the LangChain sample backend: POST /api/chat           *)
(* (routes/chat.ts, stored in src/backend/src/routes/download.ts), the     *)
(* hand-written tool loop of createAgent (models/agent.ts, second          *)
(* version), the SSE helpers (utils/stream.ts) and the in-memory           *)
(* conversation store (models/memory.ts).                                  *)
(*                                                                         *)
(* Text is a sequence of characters.  A character is a one-element string; *)
(* the fixed phrases of the source ("Tool ", " returned: ", the apology    *)
(* messages) are kept as single atoms of the sequence, so concatenation,   *)
(* trim, truthiness and JSON quoting work as in the code while the         *)
(* sequences stay short.                                                   *)
(*                                                                         *)
(* Environment: the completion engine (llmWithTools.invoke) and the tools  *)
(* (tool.invoke) are the two real suspension points of a turn; the code    *)
(* between two of them runs to completion on the Node event loop, so it is *)
(* one action.  The callbacks object handed to the executor is taken to    *)
(* expose the three handlers chatRoute registers (handleLLMNewToken,       *)
(* handleToolStart, handleToolEnd), and the engine itself raises no token  *)
(* callback during invoke (agent.ts:226, "invoke() doesn't stream").       *)
(***************************************************************************)
EXTENDS Integers, Sequences, FiniteSets, TLC

\* ---------------------------------------------------------------- bounds
MaxLen == 2
MaxToolCalls == 5
MaxCallsPerRound == 2
MaxSharedToolCalls == 1
MaxTurns == 2
MaxWrites == 2
MaxWritesPerTurn == 1

\* ------------------------------------------------------- program constants
maxIterations == 5

Req == {1, 2}
Chars == {"a", " "}
Whitespace == {" ", "\n"}
Absent == "<absent>"
DefaultSession == "default"
SessionIds == {DefaultSession, "s1"}
RegisteredTools == {"calc"}
Turn == 1..MaxTurns
WireTokens == {<<"a">>, <<" ">>, <<>>, <<"a", "\n", "a">>, <<"{", "}">>}
UserInputs == {<<"q">>, <<" ">>}
ToolNames == {"calc", "nope"}

\* ------------------------------------------------------------------ text
Strs(n) == UNION {[1..k -> Chars] : k \in 0..n}

Texts == Strs(MaxLen)

RECURSIVE TrimStart(_)
TrimStart(s) ==
  IF s = <<>> THEN s
  ELSE IF Head(s) \in Whitespace THEN TrimStart(Tail(s)) ELSE s

RECURSIVE TrimEnd(_)
TrimEnd(s) ==
  IF s = <<>> THEN s
  ELSE IF s[Len(s)] \in Whitespace THEN TrimEnd(SubSeq(s, 1, Len(s) - 1)) ELSE s

trim(s) == TrimEnd(TrimStart(s))

\* JavaScript truthiness of a string
Truthy(s) == s # <<>>

RECURSIVE Escape(_)
Escape(s) ==
  IF s = <<>> THEN <<>>
  ELSE (IF Head(s) \in {"\"", "\\"} THEN <<"\\", Head(s)>> ELSE <<Head(s)>>)
       \o Escape(Tail(s))

\* JSON.stringify of a string value
JSONstringify(s) == <<"\"">> \o Escape(s) \o <<"\"">>

RECURSIVE SelectSeqOf(_, _)
SelectSeqOf(s, S) ==
  IF s = <<>> THEN <<>>
  ELSE (IF Head(s).event \in S THEN <<Head(s)>> ELSE <<>>) \o SelectSeqOf(Tail(s), S)

\* ---------------------------------------------------------- fixed phrases
LLM_ERROR_OUTPUT == <<"I encountered an error processing your request. Please try again.">>
NO_RESPONSE_OUTPUT == <<"I did not receive a response. Please try again.">>
NO_CONTENT_OUTPUT == <<"I apologize, but I could not generate a response.">>
MAX_ITERATIONS_OUTPUT == <<"I reached the maximum number of tool calls. Please try a simpler query.">>
TOOL_CALL_STOPPED == <<"I attempted to query patient data, but encountered an issue. Please try again.">>
NO_FINAL_RESPONSE == <<"I apologize, but I encountered an issue processing your request. Please try again.">>
MISSING_KEY_ERROR == "GOOGLE_API_KEY is required when using Gemini provider"
JSON_PARSE_ERROR == "Unexpected token in JSON"

\* ------------------------------------------------------------------ state
VARIABLES
  apiKeySet,        \* env.GOOGLE_API_KEY is configured (createLLM)
  sessions,         \* BufferMemory.sessions: Map<sessionId, ChatMessage[]>
  pc,               \* where each request's handler stands
  body,             \* request.body
  replyCode,        \* status of a non-streamed reply ("400"), else Absent
  frames,           \* what has been written to reply.raw, as (event, data)
  ended,            \* reply.raw.end() has been called
  messages,         \* executor: working message sequence
  iterations,       \* executor: round counter
  toolCalls,        \* executor: tool calls of the current round
  toolIdx,          \* executor: position in the for-of over toolCalls
  toolResults,      \* executor: tool results of the current round
  responseContent,  \* executor: extracted content of the current response
  tokensStreamed,   \* chatRoute: a token went through handleLLMNewToken
  streamedContent,  \* chatRoute: concatenation of those tokens
  before,           \* history: the session's messages when the request arrived
  lastEvent,        \* history: the last outcome the environment delivered
  output,           \* history: response.output of executor.invoke, once returned
  llmCalls,         \* history: number of llmWithTools.invoke calls of the turn
  observed,         \* history: the requests whose replies are recorded in trace
  trace,            \* history: what the engine and the tools replied, in order
  disconnected,     \* the client has closed the connection of the request
  hook,             \* browser: the state and refs of useChatStream
  clients,          \* browser: the SSEClient of each turn and its response body
  callsLeft         \* tool calls the engine may still request (model bound)

vars == <<apiKeySet, sessions, pc, body, replyCode, frames, ended, messages,
          iterations, toolCalls, toolIdx, toolResults, responseContent,
          tokensStreamed, streamedContent, before, lastEvent, output, llmCalls,
          observed, trace, disconnected, hook, clients, callsLeft>>

execVars == <<messages, iterations, toolCalls, toolIdx, toolResults, responseContent>>

\* ------------------------------------------------------------ memory.ts
\* BufferMemory.getHistory
getHistory(store, sessionId) ==
  IF sessionId \in DOMAIN store THEN store[sessionId] ELSE <<>>

\* Mutant: the session's array is replaced by one that holds the new message only
addMessage_Overwrite(store, sessionId, message) ==
  [s \in (DOMAIN store) \cup {sessionId} |->
     IF s = sessionId THEN <<message>> ELSE store[s]]

\* Mutant: the message is appended to every session of the store
addMessage_AllSessions(store, sessionId, message) ==
  [s \in (DOMAIN store) \cup {sessionId} |->
     IF s = sessionId THEN Append(getHistory(store, sessionId), message)
     ELSE Append(store[s], message)]

\* BufferMemory.addMessage
addMessage(store, sessionId, message) ==
  [s \in (DOMAIN store) \cup {sessionId} |->
     IF s = sessionId THEN Append(getHistory(store, sessionId), message)
     ELSE store[s]]

ChatMessage(role, content) == [role |-> role, content |-> content]

HumanMessage(content) == [type |-> "human", content |-> content, tool_calls |-> <<>>]
AIMessage(content, calls) == [type |-> "ai", content |-> content, tool_calls |-> calls]
SystemMessage(content) == [type |-> "system", content |-> content, tool_calls |-> <<>>]

\* BufferMemory.getLangChainMessages
getLangChainMessages(store, sessionId) ==
  LET h == getHistory(store, sessionId) IN
  [i \in 1..Len(h) |->
     IF h[i].role = "user" THEN HumanMessage(h[i].content)
     ELSE IF h[i].role = "assistant" THEN AIMessage(h[i].content, <<>>)
     ELSE SystemMessage(h[i].content)]

\* ------------------------------------------------------------- stream.ts
Frame(event, data) == [event |-> event, data |-> data]

sendSSE(fs, event, data) == Append(fs, Frame(event, data))
sendToken(fs, token) == sendSSE(fs, "token", token)
sendToolCall(fs, toolName, input) == sendSSE(fs, "tool_call", [tool |-> toolName, input |-> input])
sendToolResult(fs, result) == sendSSE(fs, "tool_result", result)
sendError(fs, error) == sendSSE(fs, "error", [error |-> error])
sendDone(fs) == sendSSE(fs, "done", <<>>)


\* ------------------------------------------------- chatRoute: callbacks
\* The three locals the callbacks close over: reply, tokensStreamed, streamedContent
Sink(fs, ts, sc) == [frames |-> fs, tokensStreamed |-> ts, streamedContent |-> sc]

\* Mutant: streamedContent is one variable of the module, shared by the requests
SinkOf_SharedContent(r) ==
  Sink(frames[r], tokensStreamed[r],
       IF r = 1 THEN streamedContent[r] ELSE streamedContent[1] \o streamedContent[r])

SinkOf(r) == Sink(frames[r], tokensStreamed[r], streamedContent[r])

\* Mutant: an empty token is not forwarded
handleLLMNewToken_SkipsEmpty(st, token) ==
  IF Truthy(token) THEN Sink(sendToken(st.frames, token), TRUE, st.streamedContent \o token)
  ELSE st

handleLLMNewToken(st, token) ==
  Sink(sendToken(st.frames, token), TRUE, st.streamedContent \o token)

\* tool is the registry entry (its name) or Absent when toolMap.get found nothing
handleToolStart(st, tool, input) ==
  LET toolName == IF tool # Absent THEN tool ELSE "unknown"
  IN  [st EXCEPT !.frames = sendToolCall(st.frames, toolName, input)]

\* Mutant: the tool result is not forwarded to the channel
handleToolEnd_Silent(st, out) == st

handleToolEnd(st, out) == [st EXCEPT !.frames = sendToolResult(st.frames, out)]

\* Mutant: an output that was not streamed is never sent as a token
FinalResponse_NeverSends(out, st) ==
  IF st.tokensStreamed /\ Truthy(trim(st.streamedContent))
    THEN [text |-> st.streamedContent, frames |-> st.frames]
  ELSE IF Truthy(trim(out)) THEN [text |-> out, frames |-> st.frames]
  ELSE IF Truthy(out) THEN [text |-> JSONstringify(out), frames |-> st.frames]
  ELSE [text |-> <<>>, frames |-> st.frames]

\* -------------------------------------------- chatRoute: final response
\* Lines 173-209 for a string response.output (the only shape the manual
\* executor returns): the text to commit and the frames after the optional
\* sendToken.
FinalResponse(out, st) ==
  IF st.tokensStreamed /\ Truthy(trim(st.streamedContent))
    THEN [text |-> st.streamedContent, frames |-> st.frames]
  ELSE IF Truthy(trim(out))
    THEN [text |-> out,
          frames |-> IF ~st.tokensStreamed THEN sendToken(st.frames, out) ELSE st.frames]
  ELSE IF Truthy(out)
    THEN [text |-> JSONstringify(out),
          frames |-> IF ~st.tokensStreamed THEN sendToken(st.frames, JSONstringify(out))
                     ELSE st.frames]
  ELSE [text |-> <<>>, frames |-> st.frames]

\* Mutant: done is sent and the assistant message is never stored
CommitAndDone_DoneOnly(store, sessionId, fin) ==
  IF Truthy(fin.text)
    THEN [store |-> store, frames |-> sendDone(fin.frames)]
    ELSE [store |-> store, frames |-> sendDone(sendToken(fin.frames, NO_FINAL_RESPONSE))]

\* Lines 211-222: commit the assistant message (or the fallback) and send done
CommitAndDone(store, sessionId, fin) ==
  IF Truthy(fin.text)
    THEN [store |-> addMessage(store, sessionId, ChatMessage("assistant", fin.text)),
          frames |-> sendDone(fin.frames)]
    ELSE [store |-> addMessage(store, sessionId, ChatMessage("assistant", NO_FINAL_RESPONSE)),
          frames |-> sendDone(sendToken(fin.frames, NO_FINAL_RESPONSE))]

\* Mutant: the catch block sends the error and forgets done
CatchBlock_NoDone(fs, message) == sendError(fs, message)

\* catch block, lines 223-227
CatchBlock(fs, message) == sendDone(sendError(fs, message))

SessionOf(r) == IF body[r].sessionId = Absent THEN DefaultSession ELSE body[r].sessionId

\* executor.invoke returned {output: out}; chatRoute runs to its end
Return(r, out, st) ==
  LET res == CommitAndDone(sessions, SessionOf(r), FinalResponse(out, st)) IN
  /\ sessions' = res.store
  /\ frames' = [frames EXCEPT ![r] = res.frames]
  /\ tokensStreamed' = [tokensStreamed EXCEPT ![r] = st.tokensStreamed]
  /\ streamedContent' = [streamedContent EXCEPT ![r] = st.streamedContent]
  /\ output' = [output EXCEPT ![r] = out]
  /\ ended' = [ended EXCEPT ![r] = TRUE]
  /\ pc' = [pc EXCEPT ![r] = "closed"]

\* Mutant: the catch block also stores the error text as the assistant's message
Throw_CommitsError(r, message, st) ==
  /\ sessions' = addMessage(sessions, SessionOf(r), ChatMessage("assistant", <<message>>))
  /\ frames' = [frames EXCEPT ![r] = CatchBlock(st.frames, message)]
  /\ tokensStreamed' = [tokensStreamed EXCEPT ![r] = st.tokensStreamed]
  /\ streamedContent' = [streamedContent EXCEPT ![r] = st.streamedContent]
  /\ output' = output
  /\ ended' = [ended EXCEPT ![r] = TRUE]
  /\ pc' = [pc EXCEPT ![r] = "closed"]

\* executor.invoke (or createAgent) threw; chatRoute's catch runs
Throw(r, message, st) ==
  /\ sessions' = sessions
  /\ frames' = [frames EXCEPT ![r] = CatchBlock(st.frames, message)]
  /\ tokensStreamed' = [tokensStreamed EXCEPT ![r] = st.tokensStreamed]
  /\ streamedContent' = [streamedContent EXCEPT ![r] = st.streamedContent]
  /\ output' = output
  /\ ended' = [ended EXCEPT ![r] = TRUE]
  /\ pc' = [pc EXCEPT ![r] = "closed"]

\* ---------------------------------------------------- request arrival
\* ChatRequestSchema: message is a string of length >= 1, sessionId optional
ValidBody(b) == b.hasMessage /\ Len(b.message) >= 1

Bodies ==
  {b \in [hasMessage : BOOLEAN, message : {<<>>, <<"q">>}, sessionId : {Absent, "s1"}] :
     ~b.hasMessage => b.message = <<>>}

\* Mutant: the user message is stored before the body is validated
RejectRequest_AfterStore(r) ==
  /\ pc[r] = "idle"
  /\ \E b \in Bodies :
       /\ ~ValidBody(b)
       /\ body' = [body EXCEPT ![r] = b]
       /\ sessions' = addMessage(sessions,
                                 IF b.sessionId = Absent THEN DefaultSession ELSE b.sessionId,
                                 ChatMessage("user", b.message))
  /\ replyCode' = [replyCode EXCEPT ![r] = "400"]
  /\ pc' = [pc EXCEPT ![r] = "rejected"]
  /\ UNCHANGED <<hook, clients, apiKeySet, disconnected, observed, trace, frames, ended, execVars,
                 tokensStreamed, streamedContent, before, lastEvent, output, llmCalls,
                 callsLeft>>

\* Lines 91-99: ChatRequestSchema.safeParse fails, reply.code(400).send(...)
RejectRequest(r) ==
  /\ pc[r] = "idle"
  /\ \E b \in Bodies :
       /\ ~ValidBody(b)
       /\ body' = [body EXCEPT ![r] = b]
  /\ replyCode' = [replyCode EXCEPT ![r] = "400"]
  /\ pc' = [pc EXCEPT ![r] = "rejected"]
  /\ UNCHANGED trace
  /\ UNCHANGED <<hook, clients, apiKeySet, disconnected, observed, sessions, frames, ended, execVars, tokensStreamed,
                 streamedContent, before, lastEvent, output, llmCalls, callsLeft>>

\* Lines 101-111 when createLLM throws inside createAgent
CreateAgentFails(r) ==
  /\ pc[r] = "idle"
  /\ ~apiKeySet
  /\ \E b \in Bodies :
       /\ ValidBody(b)
       /\ body' = [body EXCEPT ![r] = b]
       /\ before' = [before EXCEPT ![r] =
                       getHistory(sessions, IF b.sessionId = Absent THEN DefaultSession
                                            ELSE b.sessionId)]
  /\ Throw(r, MISSING_KEY_ERROR, SinkOf(r))
  /\ lastEvent' = [lastEvent EXCEPT ![r] = "createAgent_throw"]
  /\ UNCHANGED trace
  /\ UNCHANGED <<hook, clients, apiKeySet, disconnected, observed, replyCode, execVars, llmCalls, callsLeft>>

\* Lines 101-166 and agent.ts 209-227: the user message is stored, the
\* executor builds its working sequence and awaits the first completion
ChatRequest(r) ==
  /\ pc[r] = "idle"
  /\ apiKeySet
  /\ \E b \in Bodies :
       LET sessionId == IF b.sessionId = Absent THEN DefaultSession ELSE b.sessionId
           store == addMessage(sessions, sessionId, ChatMessage("user", b.message))
           chat_history == getLangChainMessages(store, sessionId)
       IN  /\ ValidBody(b)
           /\ body' = [body EXCEPT ![r] = b]
           /\ before' = [before EXCEPT ![r] = getHistory(sessions, sessionId)]
           /\ sessions' = store
           /\ messages' = [messages EXCEPT ![r] =
                             Append(chat_history, HumanMessage(b.message))]
  /\ iterations' = [iterations EXCEPT ![r] = 1]
  /\ llmCalls' = [llmCalls EXCEPT ![r] = 1]
  /\ pc' = [pc EXCEPT ![r] = "llm"]
  /\ UNCHANGED trace
  /\ UNCHANGED <<hook, clients, apiKeySet, disconnected, observed, replyCode, frames, ended, toolCalls, toolIdx, toolResults,
                 responseContent, tokensStreamed, streamedContent, lastEvent, output,
                 callsLeft>>


\* ------------------------------------------------ agent.ts: the executor
\* Lines 248-276: response.content to a string (undefined, string, or an
\* array of strings whose non-empty items are joined by a space)
RECURSIVE Filter(_)
Filter(items) ==
  IF items = <<>> THEN <<>>
  ELSE (IF Truthy(Head(items)) THEN <<Head(items)>> ELSE <<>>) \o Filter(Tail(items))

RECURSIVE Join(_, _)
Join(items, sep) ==
  IF items = <<>> THEN <<>>
  ELSE IF Len(items) = 1 THEN Head(items)
  ELSE Head(items) \o sep \o Join(Tail(items), sep)

ExtractContent(content) ==
  IF content.kind = "undefined" THEN <<>>
  ELSE IF content.kind = "string" THEN content.text
  ELSE Join(Filter(content.items), <<" ">>)

\* Lines 287-293: invalid_tool_calls.map(...); JSON.parse of a string that
\* is no JSON throws
Parseable(args) == args = "string:json"

CoercionThrows(invalid) ==
  \E i \in 1..Len(invalid) : invalid[i].args = "string:bad"

CoerceInvalid(invalid) ==
  [i \in 1..Len(invalid) |->
     [name |-> invalid[i].name,
      args |-> IF Parseable(invalid[i].args) THEN "object" ELSE invalid[i].args]]

\* Mutant: invalid_tool_calls are ignored
SelectToolCalls_ValidOnly(response) == response.tool_calls

\* Lines 279-293
SelectToolCalls(response) ==
  IF Len(response.tool_calls) > 0 THEN response.tool_calls
  ELSE CoerceInvalid(response.invalid_tool_calls)

\* Lines 337-346
ParseArgs(args) ==
  IF args = "string:json" THEN "object"
  ELSE IF args = "string:bad" THEN "object:{query}"
  ELSE IF args = "undefined" THEN "object:{}"
  ELSE args

ToolReturned(toolName, resultStr) == <<"Tool ", toolName, " returned: ">> \o resultStr
ToolError(toolName, errorMsg) == <<"Tool ", toolName, " error: ">> \o errorMsg
ToolNotFound(toolName) == <<"Tool ", toolName, " not found">>

\* Mutant: the text is handed to the token callback in one piece
StreamText_WholeText(st, text) ==
  IF text = <<>> THEN st ELSE handleLLMNewToken(st, text)

\* Lines 306-323 and 417-422: the text is sent one character at a time
RECURSIVE StreamText(_, _)
StreamText(st, text) ==
  IF text = <<>> THEN st
  ELSE StreamText(handleLLMNewToken(st, <<Head(text)>>), Tail(text))

\* Mutant: a name that is not in toolMap is skipped without a frame or a result
RECURSIVE RunToolCalls_SkipsNotFound(_, _, _, _)
RunToolCalls_SkipsNotFound(calls, idx, results, st) ==
  IF idx > Len(calls) THEN [idx |-> idx, results |-> results, sink |-> st]
  ELSE LET toolName == calls[idx].name
           toolArgs == ParseArgs(calls[idx].args)
       IN  IF toolName \in RegisteredTools
             THEN [idx |-> idx, results |-> results,
                   sink |-> handleToolStart(st, toolName, toolArgs)]
             ELSE RunToolCalls_SkipsNotFound(calls, idx + 1, results, st)

\* Lines 333-354 and 384-392: the for-of over toolCalls from position idx,
\* up to the next registered tool (whose invoke is awaited) or the end of
\* the list; a name that is not in toolMap gets its error result at once
RECURSIVE RunToolCalls(_, _, _, _)
RunToolCalls(calls, idx, results, st) ==
  IF idx > Len(calls) THEN [idx |-> idx, results |-> results, sink |-> st]
  ELSE LET toolName == calls[idx].name
           toolArgs == ParseArgs(calls[idx].args)
           tool == IF toolName \in RegisteredTools THEN toolName ELSE Absent
           st1 == handleToolStart(st, tool, toolArgs)
       IN  IF tool # Absent
             THEN [idx |-> idx, results |-> results, sink |-> st1]
             ELSE RunToolCalls(calls, idx + 1,
                               Append(results,
                                      AIMessage(ToolError(toolName, ToolNotFound(toolName)),
                                                <<>>)),
                               st1)

\* Mutant: the round's results are pushed before the tool-call record
PushRound_ResultsFirst(msgs, content, calls, results) ==
  (msgs \o results) \o <<AIMessage(content, calls)>>

\* Lines 395-402: the assistant message and the round's results are appended
PushRound(msgs, content, calls, results) ==
  Append(msgs, AIMessage(content, calls)) \o results

\* Mutant: the content of the last assistant tool-call record is taken
LastContent_OfRecord(msgs) ==
  LET i == CHOOSE k \in 1..Len(msgs) :
             /\ Len(msgs[k].tool_calls) > 0
             /\ \A j \in (k + 1)..Len(msgs) : Len(msgs[j].tool_calls) = 0
  IN  msgs[i].content

\* Lines 408-426: the text returned when the round budget is used up
LastContent(msgs) == msgs[Len(msgs)].content

\* Mutant: the while condition lets one more round through
LoopGoesOn_OffByOne(i) == i <= maxIterations

\* Line 217: the while condition
LoopGoesOn(i) == i < maxIterations

\* Mutant: running out of rounds is raised as an error
MaxIterationsExit_Throws(r, msgs, sink) ==
  /\ UNCHANGED <<iterations, llmCalls>>
  /\ Throw(r, "Max iterations reached", sink)

\* Lines 408-426: the loop is left because the round budget is used up
MaxIterationsExit(r, msgs, sink) ==
  LET finalOutput == LastContent(msgs)
      st == IF Truthy(finalOutput) THEN StreamText(sink, finalOutput) ELSE sink
  IN  /\ UNCHANGED <<iterations, llmCalls>>
      /\ Return(r, IF Truthy(finalOutput) THEN finalOutput ELSE MAX_ITERATIONS_OUTPUT, st)

\* The for-of has stopped at position run.idx: either a tool is awaited, or
\* the round is over and the while loop goes on or ends (lines 217, 395-426)
Continue(r, calls, content, run) ==
  IF run.idx <= Len(calls)
    THEN /\ pc' = [pc EXCEPT ![r] = "tool"]
         /\ toolIdx' = [toolIdx EXCEPT ![r] = run.idx]
         /\ toolResults' = [toolResults EXCEPT ![r] = run.results]
         /\ frames' = [frames EXCEPT ![r] = run.sink.frames]
         /\ UNCHANGED <<sessions, tokensStreamed, streamedContent, output, ended,
                        messages, iterations, llmCalls>>
  ELSE LET msgs == PushRound(messages[r], content, calls, run.results) IN
       /\ messages' = [messages EXCEPT ![r] = msgs]
       /\ toolIdx' = [toolIdx EXCEPT ![r] = run.idx]
       /\ toolResults' = [toolResults EXCEPT ![r] = run.results]
       /\ IF LoopGoesOn(iterations[r])
            THEN /\ iterations' = [iterations EXCEPT ![r] = iterations[r] + 1]
                 /\ llmCalls' = [llmCalls EXCEPT ![r] = llmCalls[r] + 1]
                 /\ pc' = [pc EXCEPT ![r] = "llm"]
                 /\ frames' = [frames EXCEPT ![r] = run.sink.frames]
                 /\ UNCHANGED <<sessions, tokensStreamed, streamedContent, output, ended>>
            ELSE MaxIterationsExit(r, msgs, run.sink)


\* ------------------------------------------- what the environment returns
Contents ==
  {[kind |-> "undefined"]}
  \cup {[kind |-> "string", text |-> t] : t \in Texts}
  \cup {[kind |-> "array", items |-> <<a, b>>] : a, b \in {<<>>, <<"a">>}}

\* A completion that asks for tools comes with a short text of its own
ToolRoundContents == {[kind |-> "string", text |-> <<"a">>]}

SeqsUpTo(S, n) == UNION {[1..k -> S] : k \in 1..n}

ValidCalls(n) == SeqsUpTo([name : ToolNames, args : {"object"}], n)
InvalidCalls(n) == SeqsUpTo([name : ToolNames, args : {"string:json", "string:bad"}], n)

Min(a, b) == IF a < b THEN a ELSE b

CallBudget == Min(MaxCallsPerRound, callsLeft)

ToolOutputs == {<<"X">>}
\* What a tool rejects with: an Error carrying a message
Thrown == {[isError |-> TRUE, message |-> <<"boom">>]}

\* Line 376: error instanceof Error ? error.message : 'Tool execution failed'
ErrorMessage(error) ==
  IF error.isError THEN error.message ELSE <<"Tool execution failed">>

\* History: the reply the environment has just given to request r
Replied(r, reply) ==
  trace' = IF r \in observed THEN [trace EXCEPT ![r] = Append(trace[r], reply)] ELSE trace

\* Mutant: the content is returned as it is, empty or not
FinalOutput_NoFallback(content) == content

\* Lines 325-327: responseContent || the apology text
FinalOutput(content) == IF Truthy(content) THEN content ELSE NO_CONTENT_OUTPUT

\* Lines 242-406 (and 408-426 through Continue): the code that runs when
\* llmWithTools.invoke resolves with a response
OnResponse(r, response) ==
  LET content == ExtractContent(response.content) IN
  /\ responseContent' = [responseContent EXCEPT ![r] = content]
  /\ IF Len(response.tool_calls) = 0 /\ CoercionThrows(response.invalid_tool_calls)
       THEN /\ Throw(r, JSON_PARSE_ERROR, SinkOf(r))
            /\ UNCHANGED <<messages, iterations, llmCalls, toolCalls, toolIdx, toolResults>>
     ELSE LET calls == SelectToolCalls(response) IN
       IF Len(calls) = 0
         THEN /\ Return(r, FinalOutput(content),
                        IF Truthy(content) THEN StreamText(SinkOf(r), content)
                        ELSE SinkOf(r))
              /\ UNCHANGED <<messages, iterations, llmCalls, toolCalls, toolIdx, toolResults>>
         ELSE /\ toolCalls' = [toolCalls EXCEPT ![r] = calls]
              /\ Continue(r, calls, content, RunToolCalls(calls, 1, <<>>, SinkOf(r)))

\* Lines 227-233: llmWithTools.invoke rejects
LLMThrows(r) ==
  /\ pc[r] = "llm"
  /\ Return(r, LLM_ERROR_OUTPUT, SinkOf(r))
  /\ lastEvent' = [lastEvent EXCEPT ![r] = "llm_throw"]
  /\ Replied(r, [reply |-> "llm_throw"])
  /\ UNCHANGED <<hook, clients, apiKeySet, disconnected, observed, body, replyCode, execVars, before, llmCalls, callsLeft>>

\* Lines 235-240: llmWithTools.invoke resolves with nothing
LLMReturnsNothing(r) ==
  /\ pc[r] = "llm"
  /\ Return(r, NO_RESPONSE_OUTPUT, SinkOf(r))
  /\ lastEvent' = [lastEvent EXCEPT ![r] = "llm_null"]
  /\ Replied(r, [reply |-> "llm_null"])
  /\ UNCHANGED <<hook, clients, apiKeySet, disconnected, observed, body, replyCode, execVars, before, llmCalls, callsLeft>>

\* The completion carries no tool call of either kind
LLMReturnsFinal(r) ==
  /\ pc[r] = "llm"
  /\ \E c \in Contents :
       LET response == [content |-> c, tool_calls |-> <<>>, invalid_tool_calls |-> <<>>]
       IN  OnResponse(r, response) /\ Replied(r, [reply |-> "response", response |-> response])
  /\ lastEvent' = [lastEvent EXCEPT ![r] = "llm_final"]
  /\ UNCHANGED <<hook, clients, apiKeySet, disconnected, observed, body, replyCode, before, callsLeft>>

\* The completion carries tool_calls
LLMRequestsTools(r) ==
  /\ pc[r] = "llm"
  /\ \E c \in ToolRoundContents, calls \in ValidCalls(CallBudget) :
       /\ LET response == [content |-> c, tool_calls |-> calls, invalid_tool_calls |-> <<>>]
          IN  OnResponse(r, response)
              /\ Replied(r, [reply |-> "response", response |-> response])
       /\ callsLeft' = callsLeft - Len(calls)
  /\ lastEvent' = [lastEvent EXCEPT ![r] = "llm_tools"]
  /\ UNCHANGED <<hook, clients, apiKeySet, disconnected, observed, body, replyCode, before>>

\* The completion carries only invalid_tool_calls
LLMReturnsInvalidToolCalls(r) ==
  /\ pc[r] = "llm"
  /\ \E c \in ToolRoundContents, calls \in InvalidCalls(CallBudget) :
       /\ LET response == [content |-> c, tool_calls |-> <<>>, invalid_tool_calls |-> calls]
          IN  OnResponse(r, response)
              /\ Replied(r, [reply |-> "response", response |-> response])
       /\ callsLeft' = callsLeft - Len(calls)
       /\ lastEvent' = [lastEvent EXCEPT ![r] = IF CoercionThrows(calls) THEN "coercion_throw"
                                                ELSE "llm_tools"]
  /\ UNCHANGED <<hook, clients, apiKeySet, disconnected, observed, body, replyCode, before>>

\* Lines 358-374: tool.invoke resolves
ToolReturns(r) ==
  /\ pc[r] = "tool"
  /\ \E result \in ToolOutputs :
       LET toolName == toolCalls[r][toolIdx[r]].name
           st == handleToolEnd(SinkOf(r), result)
           results == Append(toolResults[r], AIMessage(ToolReturned(toolName, result), <<>>))
       IN  Continue(r, toolCalls[r], responseContent[r],
                    RunToolCalls(toolCalls[r], toolIdx[r] + 1, results, st))
           /\ Replied(r, [reply |-> "tool_return", result |-> result])
  /\ lastEvent' = [lastEvent EXCEPT ![r] = "tool_return"]
  /\ UNCHANGED <<hook, clients, apiKeySet, disconnected, observed, body, replyCode, toolCalls, responseContent, before, callsLeft>>

\* Mutant: a rejected tool call is not caught and ends the turn in the catch block
ToolThrows_Aborts(r) ==
  /\ pc[r] = "tool"
  /\ Throw(r, "boom", SinkOf(r))
  /\ lastEvent' = [lastEvent EXCEPT ![r] = "tool_throw"]
  /\ UNCHANGED trace
  /\ UNCHANGED <<hook, clients, apiKeySet, disconnected, observed, body, replyCode, execVars, before, llmCalls, callsLeft>>

\* Lines 375-383: tool.invoke rejects
ToolThrows(r) ==
  /\ pc[r] = "tool"
  /\ \E error \in Thrown :
       LET toolName == toolCalls[r][toolIdx[r]].name
           errorMsg == ErrorMessage(error)
           results == Append(toolResults[r], AIMessage(ToolError(toolName, errorMsg), <<>>))
       IN  Continue(r, toolCalls[r], responseContent[r],
                    RunToolCalls(toolCalls[r], toolIdx[r] + 1, results, SinkOf(r)))
           /\ Replied(r, [reply |-> "tool_throw", error |-> error])
  /\ lastEvent' = [lastEvent EXCEPT ![r] = "tool_throw"]
  /\ UNCHANGED <<hook, clients, apiKeySet, disconnected, observed, body, replyCode, toolCalls, responseContent, before, callsLeft>>

\* ------------------------------------------------------- specification
NoBody == [hasMessage |-> FALSE, message |-> <<>>, sessionId |-> Absent]

\* A turn the browser has not started: no SSEClient yet
NoClient ==
  [pc |-> "none", wire |-> <<>>, bodyEnded |-> FALSE, buffer |-> <<>>,
   currentEventType |-> <<"message">>, listeners |-> FALSE,
   sent |-> <<>>, delivered |-> <<>>]

\* useChatStream before the first message: its useState and useRef values
NoHook ==
  [isLoading |-> FALSE, error |-> <<>>, currentMessage |-> <<>>,
   sseClientRef |-> 0, started |-> 0, content |-> <<>>]

InitWith(arriving, recorded, budget) ==
  /\ apiKeySet \in BOOLEAN
  /\ sessions = <<>>
  /\ pc = [r \in Req |-> IF r \in arriving THEN "idle" ELSE "none"]
  /\ body = [r \in Req |-> NoBody]
  /\ replyCode = [r \in Req |-> Absent]
  /\ frames = [r \in Req |-> <<>>]
  /\ ended = [r \in Req |-> FALSE]
  /\ messages = [r \in Req |-> <<>>]
  /\ iterations = [r \in Req |-> 0]
  /\ toolCalls = [r \in Req |-> <<>>]
  /\ toolIdx = [r \in Req |-> 0]
  /\ toolResults = [r \in Req |-> <<>>]
  /\ responseContent = [r \in Req |-> <<>>]
  /\ tokensStreamed = [r \in Req |-> FALSE]
  /\ streamedContent = [r \in Req |-> <<>>]
  /\ before = [r \in Req |-> <<>>]
  /\ lastEvent = [r \in Req |-> "none"]
  /\ output = [r \in Req |-> <<>>]
  /\ llmCalls = [r \in Req |-> 0]
  /\ observed = recorded
  /\ trace = [r \in Req |-> <<>>]
  /\ disconnected = [r \in Req |-> FALSE]
  /\ hook = NoHook
  /\ clients = [c \in Turn |-> NoClient]
  /\ callsLeft = budget

Init == InitWith({1}, {}, MaxToolCalls)

Next ==
  \E r \in Req :
    \/ RejectRequest(r)
    \/ CreateAgentFails(r)
    \/ ChatRequest(r)
    \/ LLMThrows(r)
    \/ LLMReturnsNothing(r)
    \/ LLMReturnsFinal(r)
    \/ LLMRequestsTools(r)
    \/ LLMReturnsInvalidToolCalls(r)
    \/ ToolReturns(r)
    \/ ToolThrows(r)

Spec == Init /\ [][Next]_vars

\* The client closes the connection while its turn is running.  chatRoute
\* registers no close or abort listener and the executor takes no signal, so
\* nothing but the connection changes.
ClientDisconnects(r) ==
  /\ pc[r] \in {"llm", "tool"}
  /\ ~disconnected[r]
  /\ disconnected' = [disconnected EXCEPT ![r] = TRUE]
  /\ UNCHANGED <<hook, clients, apiKeySet, sessions, pc, body, replyCode, frames, ended, execVars,
                 tokensStreamed, streamedContent, before, lastEvent, output, llmCalls,
                 observed, trace, callsLeft>>

CancelInit == InitWith({1}, {}, 2 * MaxSharedToolCalls)

CancelNext ==
  \/ Next
  \/ \E r \in Req : ClientDisconnects(r)

CancelSpec == CancelInit /\ [][CancelNext]_vars

\* Two requests arrive, in any order and overlapping as the event loop allows
TwoInit == InitWith({1, 2}, {}, MaxSharedToolCalls)

TwoSpec == TwoInit /\ [][Next]_vars

\* The same, with the replies to both requests recorded and tool calls enough
\* for a tool round in each turn
TwinInit == InitWith({1, 2}, {1, 2}, 2 * MaxSharedToolCalls)

TwinSpec == TwinInit /\ [][Next]_vars

\* One request, whose replies are recorded
ObservedInit == InitWith({1}, {1}, 2 * MaxSharedToolCalls)

ObservedSpec == ObservedInit /\ [][Next]_vars

TypeOK ==
  /\ \A r \in Req : pc[r] \in {"none", "idle", "rejected", "llm", "tool", "closed"}
  /\ \A r \in Req : iterations[r] \in 0..maxIterations
  /\ callsLeft \in 0..MaxToolCalls


\* Every awaited completion and every awaited tool call eventually resolves
\* or rejects
EngineReplies(r) ==
  \/ LLMThrows(r)
  \/ LLMReturnsNothing(r)
  \/ LLMReturnsFinal(r)
  \/ LLMRequestsTools(r)
  \/ LLMReturnsInvalidToolCalls(r)

ToolReplies(r) == ToolReturns(r) \/ ToolThrows(r)

FairSpec ==
  Spec /\ \A r \in Req : WF_vars(EngineReplies(r)) /\ WF_vars(ToolReplies(r))

\* ------------------------------------------------ the bytes on the wire
\* stream.ts sendSSE: a string is written as it is, anything else through
\* JSON.stringify
Payload(frame) ==
  IF frame.event \in {"token", "tool_result"} THEN frame.data
  ELSE IF frame.event = "tool_call"
    THEN <<"{", "\"tool\":", frame.data.tool, ",", "\"input\":", "{", "}", "}">>
  ELSE IF frame.event = "error"
    THEN <<"{", "\"error\":", frame.data.error, "}">>
  ELSE <<"{", "}">>

\* stream.ts sendSSE: `event: ${event}\ndata: ${payload}\n\n`
WireOf(frame) ==
  <<"event:", " ", frame.event, "\n", "data:", " ">> \o Payload(frame) \o <<"\n", "\n">>

RECURSIVE WireOfFrames(_)
WireOfFrames(fs) ==
  IF fs = <<>> THEN <<>> ELSE WireOf(Head(fs)) \o WireOfFrames(Tail(fs))

\* What Fastify writes for reply.code(400).send({ error, details })
RejectionBody == <<"{", "\"error\":", "Invalid request", "}">>

\* ------------------------------------------- sseClient.ts (SSEClient)
\* String.prototype.split on one character
RECURSIVE Split(_, _)
Split(s, sep) ==
  IF \E i \in 1..Len(s) : s[i] = sep
    THEN LET i == CHOOSE j \in 1..Len(s) :
                    s[j] = sep /\ \A k \in 1..(j - 1) : s[k] # sep
         IN  <<SubSeq(s, 1, i - 1)>> \o Split(SubSeq(s, i + 1, Len(s)), sep)
    ELSE <<s>>

\* String.prototype.startsWith
StartsWith(s, prefix) ==
  Len(s) >= Len(prefix) /\ SubSeq(s, 1, Len(prefix)) = prefix

\* useChatStream: the listener registered for 'token'
OnToken(st, c, data) ==
  [st EXCEPT !.hook.currentMessage = @ \o data,
             !.hook.content = [m \in DOMAIN st.hook.content |->
                                 IF m = c THEN st.hook.currentMessage \o data
                                 ELSE st.hook.content[m]],
             !.client.delivered = Append(@, data)]

\* useChatStream: the listener registered for 'error'
OnError(st, data) ==
  [st EXCEPT !.hook.error = IF Truthy(data) THEN data ELSE <<"An error occurred">>,
             !.hook.isLoading = FALSE]

\* useChatStream: the listener registered for 'done'
OnDone(st) ==
  [st EXCEPT !.hook.isLoading = FALSE,
             !.client.listeners = FALSE,
             !.hook.sseClientRef = 0]

\* SSEClient.emit: the listeners of the event are called, if there are any
emit(st, c, event, data) ==
  IF ~st.client.listeners THEN st
  ELSE IF event = <<"token">> THEN OnToken(st, c, data)
  ELSE IF event = <<"error">> THEN OnError(st, data)
  ELSE IF event = <<"done">> THEN OnDone(st)
  ELSE st

\* processStream: the body of the for loop over the lines of a chunk
ProcessLine(st, c, line) ==
  LET trimmedLine == trim(line) IN
  IF ~Truthy(trimmedLine) THEN st
  ELSE IF StartsWith(trimmedLine, <<"event:", " ">>)
    THEN [st EXCEPT !.client.currentEventType =
                       trim(SubSeq(trimmedLine, 3, Len(trimmedLine)))]
  ELSE IF StartsWith(trimmedLine, <<"data:", " ">>)
    THEN LET data == SubSeq(trimmedLine, 3, Len(trimmedLine)) IN
         IF trim(data) = <<"{", "}">>
           THEN IF st.client.currentEventType = <<"done">>
                  THEN emit(st, c, st.client.currentEventType, <<>>)
                  ELSE st
           ELSE emit(st, c, st.client.currentEventType, data)
  ELSE st

RECURSIVE ProcessLines(_, _, _)
ProcessLines(st, c, lines) ==
  IF lines = <<>> THEN st
  ELSE ProcessLines(ProcessLine(st, c, Head(lines)), c, Tail(lines))

\* processStream: one chunk read from the body
ProcessChunk(st, c, chunk) ==
  LET lines == Split(st.client.buffer \o chunk, "\n")
      rest  == lines[Len(lines)]
  IN  ProcessLines([st EXCEPT !.client.buffer = rest], c,
                   SubSeq(lines, 1, Len(lines) - 1))

Client(c) == [hook |-> hook, client |-> clients[c]]

Becomes(c, st) ==
  /\ hook' = st.hook
  /\ clients' = [clients EXCEPT ![c] = st.client]

serverVars ==
  <<apiKeySet, sessions, pc, body, replyCode, frames, ended, messages,
    iterations, toolCalls, toolIdx, toolResults, responseContent,
    tokensStreamed, streamedContent, before, lastEvent, output, llmCalls,
    observed, trace, disconnected, callsLeft>>

\* ----------------------------------------- useChatStream.ts (the hook)
\* useChatStream.sendMessage
SendMessage ==
  \E message \in UserInputs :
    IF ~Truthy(trim(message)) \/ hook.isLoading
      THEN UNCHANGED vars
      ELSE /\ hook.started < MaxTurns
           /\ LET c == hook.started + 1 IN
                /\ hook' = [hook EXCEPT !.isLoading = TRUE,
                                        !.error = <<>>,
                                        !.currentMessage = <<>>,
                                        !.sseClientRef = c,
                                        !.started = c,
                                        !.content = [m \in DOMAIN hook.content \cup {c} |->
                                                       IF m = c THEN <<>> ELSE hook.content[m]]]
                /\ clients' = [clients EXCEPT ![c] =
                                 [NoClient EXCEPT !.pc = "fetching", !.listeners = TRUE]]
           /\ UNCHANGED serverVars

\* useChatStream.clearMessages
ClearMessages ==
  /\ hook' = [hook EXCEPT !.content = <<>>, !.error = <<>>, !.sseClientRef = 0]
  /\ clients' = IF hook.sseClientRef # 0
                  THEN [clients EXCEPT ![hook.sseClientRef].listeners = FALSE]
                  ELSE clients
  /\ UNCHANGED serverVars

\* connectWithFetch: fetch resolves with the response
ResponseArrives(c) ==
  /\ clients[c].pc = "fetching"
  /\ clients' = [clients EXCEPT ![c].pc = "reading"]
  /\ UNCHANGED <<hook, serverVars>>

\* connectWithFetch: fetch rejects, or the response has no body
FetchFails(c) ==
  /\ clients[c].pc = "fetching"
  /\ Becomes(c, [emit(Client(c), c, <<"error">>, <<"{", "\"error\":", "Failed to fetch", "}">>)
                   EXCEPT !.client.pc = "over"])
  /\ UNCHANGED serverVars

\* processStream: reader.read() resolves with a chunk, which is any part of
\* what was written and not read yet
ClientReadsChunk(c) ==
  /\ clients[c].pc = "reading"
  /\ \E n \in 1..Len(clients[c].wire) :
       Becomes(c, ProcessChunk([Client(c) EXCEPT !.client.wire =
                                  SubSeq(clients[c].wire, n + 1, Len(clients[c].wire))],
                               c, SubSeq(clients[c].wire, 1, n)))
  /\ UNCHANGED serverVars

\* processStream: reader.read() resolves with done
ClientReadsEnd(c) ==
  /\ clients[c].pc = "reading"
  /\ clients[c].wire = <<>>
  /\ clients[c].bodyEnded
  /\ Becomes(c, [emit(Client(c), c, <<"done">>, <<>>) EXCEPT !.client.pc = "over"])
  /\ UNCHANGED serverVars

\* processStream: reader.read() rejects
ReadFails(c) ==
  /\ clients[c].pc = "reading"
  /\ ~clients[c].bodyEnded
  /\ Becomes(c, [emit(Client(c), c, <<"error">>, <<"{", "\"error\":", "network error", "}">>)
                   EXCEPT !.client.pc = "over"])
  /\ UNCHANGED serverVars

\* What chatRoute writes to the response the client reads
Written(c, fs, over) ==
  /\ clients[c].pc = "reading"
  /\ ~clients[c].bodyEnded
  /\ clients' = [clients EXCEPT ![c].wire = @ \o WireOfFrames(fs),
                                ![c].bodyEnded = over]
  /\ UNCHANGED <<hook, serverVars>>

\* chatRoute: sendToken, at most `most` times in a response (model bound)
ServerSendsToken(c, most) ==
  \E token \in WireTokens :
    /\ Len(clients[c].sent) < most
    /\ clients[c].pc = "reading"
    /\ ~clients[c].bodyEnded
    /\ clients' = [clients EXCEPT ![c].wire = @ \o WireOfFrames(sendToken(<<>>, token)),
                                  ![c].sent = Append(@, token)]
    /\ UNCHANGED <<hook, serverVars>>

ServerSendsDone(c) == Written(c, sendDone(<<>>), TRUE)

\* chatRoute: the catch block writes the error frame and the done frame, and ends
ServerSendsError(c) == Written(c, CatchBlock(<<>>, "boom"), TRUE)

\* chatRoute: the request fails validation, the reply is a JSON body
ServerRejects(c) ==
  /\ clients[c].pc = "reading"
  /\ ~clients[c].bodyEnded
  /\ clients[c].sent = <<>>
  /\ clients[c].wire = <<>>
  /\ clients[c].buffer = <<>>
  /\ clients[c].currentEventType = <<"message">>
  /\ clients' = [clients EXCEPT ![c].wire = RejectionBody, ![c].bodyEnded = TRUE]
  /\ UNCHANGED <<hook, serverVars>>

ClientInit == InitWith({}, {}, 0) /\ apiKeySet

\* A turn of the chat as the browser goes through it
WireNext ==
  \/ SendMessage
  \/ \E c \in Turn :
       \/ ResponseArrives(c)
       \/ ServerSendsToken(c, MaxWrites)
       \/ ServerSendsDone(c)
       \/ ClientReadsChunk(c)
       \/ ClientReadsEnd(c)

WireSpec == ClientInit /\ [][WireNext]_vars

\* The same with every way a turn can end, and the Clear Chat button
ClientNext ==
  \/ SendMessage
  \/ ClearMessages
  \/ \E c \in Turn :
       \/ ResponseArrives(c)
       \/ ServerSendsToken(c, MaxWritesPerTurn)
       \/ ServerSendsDone(c)
       \/ ClientReadsChunk(c)
       \/ ClientReadsEnd(c)
       \/ FetchFails(c)
       \/ ReadFails(c)
       \/ ServerSendsError(c)
       \/ ServerRejects(c)

ClientSpec == ClientInit /\ [][ClientNext]_vars

\* ------------------------------------------------- reading a finished turn
Count(fs, event) == Cardinality({i \in 1..Len(fs) : fs[i].event = event})

Has(fs, event) == \E i \in 1..Len(fs) : fs[i].event = event

Kinds(fs) == [i \in 1..Len(fs) |-> fs[i].event]

\* Concatenation of the token frames, in order
RECURSIVE TokenText(_)
TokenText(fs) ==
  IF fs = <<>> THEN <<>>
  ELSE (IF Head(fs).event = "token" THEN Head(fs).data ELSE <<>>) \o TokenText(Tail(fs))

History(r) == getHistory(sessions, SessionOf(r))

\* The messages the turn of r has added to its session
Added(r) == SubSeq(History(r), Len(before[r]) + 1, Len(History(r)))

Validated(r) == pc[r] \in {"llm", "tool", "closed"}

UserMessage(r) == ChatMessage("user", body[r].message)

\* The engine asked for a tool at some round of the turn
RequestedTool(r) == \E i \in 1..Len(messages[r]) : Len(messages[r][i].tool_calls) > 0

\* ------------------------------------------------------------------ C1
\* C1: a validated turn writes exactly one done frame, as the last frame of
\* the channel, on every path that ends it; while the turn runs no done
\* frame has been written, and nothing is written after done.
C1_ExactlyOneDoneLast ==
  \A r \in Req :
    /\ Count(frames[r], "done") <= 1
    /\ Has(frames[r], "done") =>
         /\ frames[r][Len(frames[r])].event = "done"
         /\ pc[r] = "closed" /\ ended[r]
    /\ pc[r] = "closed" => Count(frames[r], "done") = 1
    /\ ended[r] => pc[r] = "closed"

\* A turn ended by an exception after a tool round: error, then done
C1_Witness ==
  \E r \in Req :
    /\ pc[r] = "closed"
    /\ Has(frames[r], "tool_call") /\ Has(frames[r], "error")
    /\ frames[r][Len(frames[r])].event = "done"

\* ------------------------------------------------------------------ C2
\* What the client has received when the turn is over, tool_call and
\* tool_result frames apart: the tokens of the whole text the executor
\* returned and done, or one error frame and done
AnswerOrError(r) ==
  LET fs == SelectSeqOf(frames[r], {"token", "error", "done"}) IN
  \/ /\ ~Has(fs, "error")
     /\ Len(fs) >= 2
     /\ \A i \in 1..(Len(fs) - 1) : fs[i].event = "token"
     /\ fs[Len(fs)].event = "done"
     /\ Truthy(output[r])
     /\ TokenText(fs) = output[r]
  \/ /\ Kinds(fs) = <<"error", "done">>

\* C2: if every completion and every tool call eventually resolves or
\* rejects, every validated turn reaches done, and what it has sent by then
\* is either the tokens of the complete answer or exactly one error frame.
C2_AlwaysAnswerOrErrorThenDone ==
  \A r \in Req :
    /\ (pc[r] \in {"llm", "tool"}) ~> (pc[r] = "closed")
    /\ [](pc[r] = "closed" => AnswerOrError(r))

\* A turn that ran all five rounds and still ended with an answer and done
C2_Witness ==
  \E r \in Req :
    /\ pc[r] = "closed" /\ llmCalls[r] = maxIterations
    /\ RequestedTool(r) /\ ~Has(frames[r], "error")
    /\ AnswerOrError(r)

\* ------------------------------------------------------------------ C3
\* C3: in a turn where the engine requests no tool and returns an answer,
\* exactly one assistant message is appended to the session and the
\* concatenation of the token frames equals its content, for every text.
C3_NoToolTurnTokensEqualMessage ==
  \A r \in Req :
    (pc[r] = "closed" /\ lastEvent[r] = "llm_final" /\ ~RequestedTool(r)) =>
      /\ Len(Added(r)) = 2
      /\ Added(r)[1] = UserMessage(r)
      /\ Added(r)[2].role = "assistant"
      /\ TokenText(frames[r]) = Added(r)[2].content


\* Witness of the failing case of C3: an answer of blanks only was sent as
\* it is and committed in JSON quotes
C3_WhitespaceAnswer ==
  \E r \in Req :
    /\ pc[r] = "closed" /\ lastEvent[r] = "llm_final" /\ ~RequestedTool(r)
    /\ Truthy(output[r]) /\ ~Truthy(trim(output[r]))
    /\ TokenText(frames[r]) # Added(r)[2].content

\* ------------------------------------------------------------------ C4
ToolRecords(r) == {i \in 1..Len(messages[r]) : Len(messages[r][i].tool_calls) > 0}

IsToolResult(m, name) ==
  /\ m.type = "ai" /\ Len(m.tool_calls) = 0
  /\ Len(m.content) >= 3
  /\ m.content[1] = "Tool " /\ m.content[2] = name
  /\ m.content[3] \in {" returned: ", " error: "}

\* C4 as stated: a turn with one tool call adds four messages to the session
\* (user, assistant tool-call record, tool result, assistant answer).
C4_SessionGainsFourMessages ==
  \A r \in Req :
    (pc[r] = "closed" /\ Count(frames[r], "tool_call") = 1 /\ ~Has(frames[r], "error")) =>
      /\ Len(Added(r)) = 4
      /\ Added(r)[1] = UserMessage(r)
      /\ Added(r)[4].role = "assistant"

\* C4 (amended): in a turn that invokes a tool and ends with an answer, the
\* executor's working sequence holds, in order, the user message, then for
\* every tool round the assistant tool-call record directly followed by one
\* tool-result message per call; the session gains two messages only, the
\* user message and last the assistant's answer.
C4_WorkingSequenceOrderedSessionGainsTwo ==
  \A r \in Req :
    (pc[r] = "closed" /\ RequestedTool(r) /\ ~Has(frames[r], "error")) =>
      LET m == messages[r] IN
      /\ Len(Added(r)) = 2
      /\ Added(r)[1] = UserMessage(r)
      /\ Added(r)[2].role = "assistant" /\ Truthy(Added(r)[2].content)
      /\ m[Len(before[r]) + 1] = HumanMessage(body[r].message)
      /\ \A i \in ToolRecords(r) :
           /\ i > Len(before[r]) + 1
           /\ m[i].type = "ai"
           /\ i + Len(m[i].tool_calls) <= Len(m)
           /\ \A k \in 1..Len(m[i].tool_calls) :
                IsToolResult(m[i + k], m[i].tool_calls[k].name)
      /\ \A j \in 1..Len(m) :
           (\E name \in ToolNames : IsToolResult(m[j], name)) =>
             \E i \in ToolRecords(r) : i < j /\ j <= i + Len(m[i].tool_calls)

C4_Witness ==
  \E r \in Req :
    /\ pc[r] = "closed" /\ ~Has(frames[r], "error")
    /\ Count(frames[r], "tool_call") = 1 /\ Count(frames[r], "tool_result") = 1
    /\ Cardinality(ToolRecords(r)) = 1
    /\ Len(Added(r)) = 2

\* ------------------------------------------------------------------ C5
\* Round 1 asked for one registered tool, it returned, and round 2 gave a
\* final text
ScenarioB(r) ==
  LET m == messages[r] IN
  /\ pc[r] = "closed" /\ llmCalls[r] = 2 /\ lastEvent[r] = "llm_final"
  /\ Cardinality(ToolRecords(r)) = 1
  /\ Len(m[Len(m) - 1].tool_calls) = 1
  /\ m[Len(m)].content[3] = " returned: "
  /\ Truthy(responseContent[r])

\* C5: when round 1 requests one tool that returns X and round 2 returns the
\* final text T, the channel carries one tool_call, one tool_result with X,
\* then token frames that spell T, then done; no token comes before the
\* tool_result.
C5_ToolCallResultTokensDone ==
  \A r \in Req :
    ScenarioB(r) =>
      LET m == messages[r]
          T == responseContent[r]
          X == SubSeq(m[Len(m)].content, 4, Len(m[Len(m)].content))
          fs == frames[r]
      IN  /\ Kinds(fs) = <<"tool_call", "tool_result">>
                         \o [i \in 1..Len(T) |-> "token"] \o <<"done">>
          /\ fs[1].data.tool = m[Len(m) - 1].tool_calls[1].name
          /\ fs[2].data = X
          /\ \A i \in 1..Len(T) : fs[2 + i].data = <<T[i]>>
          /\ TokenText(fs) = T

C5_Witness ==
  \E r \in Req :
    /\ ScenarioB(r)
    /\ responseContent[r] = <<"a", " ">>
    /\ Len(frames[r]) = 5

\* ------------------------------------------------------------------ C6
\* C6: when the completion-engine call fails, the turn emits one error frame
\* and done, no token frame, and appends no assistant message: the user's
\* message is the last entry of the session.
C6_EngineFailureIsErrorFrame ==
  \A r \in Req :
    (pc[r] = "closed" /\ lastEvent[r] = "llm_throw") =>
      /\ Count(frames[r], "error") = 1
      /\ ~Has(frames[r], "token")
      /\ frames[r][Len(frames[r])].event = "done"
      /\ History(r)[Len(History(r))] = UserMessage(r)

\* ------------------------------------------------------------------ C7
\* Request r takes the step in which its awaited tool call rejects
ToolThrowStep(r) ==
  /\ pc[r] = "tool"
  /\ lastEvent'[r] = "tool_throw"
  /\ <<pc[r], frames[r], toolResults[r]>>' # <<pc[r], frames[r], toolResults[r]>>

\* C7: a tool that throws does not abort the turn: no error frame is sent,
\* the error text becomes that call's tool-result message, the remaining
\* calls of the round run, and when the round is over the loop asks for
\* another completion while the round budget allows (and otherwise ends the
\* turn with done).
C7_ToolThrowDoesNotAbort ==
  [][\A r \in Req :
       ToolThrowStep(r) =>
         LET k == Len(toolResults[r]) + 1
             name == toolCalls[r][toolIdx[r]].name
         IN  /\ ~Has(frames'[r], "error")
             /\ k = toolIdx[r]
             /\ Len(toolResults'[r]) >= k
             /\ SubSeq(toolResults'[r][k].content, 1, 3) = <<"Tool ", name, " error: ">>
             /\ \/ /\ pc'[r] = "tool"
                   /\ toolIdx'[r] > toolIdx[r]
                   /\ Len(toolResults'[r]) = toolIdx'[r] - 1
                \/ /\ Len(toolResults'[r]) = Len(toolCalls[r])
                   /\ messages'[r] = Append(messages[r],
                                            AIMessage(responseContent[r], toolCalls[r]))
                                     \o toolResults'[r]
                   /\ IF iterations[r] < 5
                        THEN pc'[r] = "llm" /\ llmCalls'[r] = llmCalls[r] + 1
                        ELSE /\ pc'[r] = "closed"
                             /\ frames'[r][Len(frames'[r])].event = "done"
                             /\ Has(frames'[r], "token")]_vars

\* The first call of a round threw and the second call of the round is running
C7_Witness ==
  \E r \in Req :
    /\ pc[r] = "tool" /\ toolIdx[r] = 2 /\ lastEvent[r] = "tool_throw"
    /\ toolResults[r][1].content[3] = " error: "
    /\ ~Has(frames[r], "error")

\* ------------------------------------------------------------------ C8
\* C8: the round counter never exceeds 5, and at most 5 completion-engine
\* calls are made in a turn.
C8_AtMostFiveRounds ==
  \A r \in Req :
    /\ iterations[r] <= 5
    /\ llmCalls[r] <= 5
    /\ llmCalls[r] = iterations[r]

\* The fifth completion is awaited after four tool rounds
C8_Witness ==
  \E r \in Req :
    pc[r] = "llm" /\ iterations[r] = 5 /\ llmCalls[r] = 5 /\ Cardinality(ToolRecords(r)) = 4

\* ------------------------------------------------------------------ C9
\* C9: when the engine requests a tool in each of the 5 rounds, the turn is
\* over once the fifth round is, without an error frame: the executor has
\* returned a non-empty text, an assistant message with that text is the
\* last message of the session, and done is the last frame.
C9_BudgetExhaustedStillAnswers ==
  \A r \in Req :
    Cardinality(ToolRecords(r)) = 5 =>
      /\ pc[r] = "closed"
      /\ ~Has(frames[r], "error")
      /\ Truthy(output[r])
      /\ Len(Added(r)) = 2
      /\ Added(r)[2] = ChatMessage("assistant", output[r])
      /\ frames[r][Len(frames[r])].event = "done"

C9_Witness ==
  \E r \in Req :
    /\ Cardinality(ToolRecords(r)) = 5 /\ llmCalls[r] = 5
    /\ pc[r] = "closed" /\ lastEvent[r] = "tool_throw"

\* ----------------------------------------------------------------- C10
\* C10: no session ever holds an assistant message with empty content; when
\* the final completion carries no text, the apology text is returned in its
\* place, sent as one token and committed.
C10_NoEmptyAssistantMessage ==
  /\ \A id \in DOMAIN sessions : \A i \in 1..Len(sessions[id]) :
       sessions[id][i].role = "assistant" => Truthy(sessions[id][i].content)
  /\ \A r \in Req :
       (pc[r] = "closed" /\ lastEvent[r] = "llm_final" /\ ~Truthy(responseContent[r])) =>
         /\ ~tokensStreamed[r]
         /\ History(r)[Len(History(r))] = ChatMessage("assistant", NO_CONTENT_OUTPUT)
         /\ Count(frames[r], "token") = 1
         /\ TokenText(frames[r]) = NO_CONTENT_OUTPUT

C10_Witness ==
  \E r \in Req :
    /\ pc[r] = "closed" /\ lastEvent[r] = "llm_final" /\ ~Truthy(responseContent[r])
    /\ RequestedTool(r)
    /\ History(r)[Len(History(r))].content = NO_CONTENT_OUTPUT

\* ----------------------------------------------------------------- C11
\* C11: in every turn that produced answer text, the assistant message is in
\* the session by the time done is written: in no state has done been sent
\* after token frames while the session lacks the turn's assistant message.
C11_AnswerCommittedBeforeDone ==
  \A r \in Req :
    (Has(frames[r], "done") /\ Has(frames[r], "token")) =>
      /\ Len(Added(r)) = 2
      /\ Added(r)[1] = UserMessage(r)
      /\ Added(r)[2].role = "assistant"
      /\ Truthy(Added(r)[2].content)
      /\ Added(r)[2].content \in {TokenText(frames[r]), JSONstringify(TokenText(frames[r]))}

\* An answer streamed after a tool round, committed, and done sent
C11_Witness ==
  \E r \in Req :
    /\ Has(frames[r], "done") /\ Has(frames[r], "tool_result")
    /\ Count(frames[r], "token") = 2
    /\ Added(r)[2] = ChatMessage("assistant", TokenText(frames[r]))

\* ----------------------------------------------------------------- C12
\* C12: a request whose body fails validation (message missing or empty) is
\* answered with a 400 reply and nothing else: the step that rejects it
\* leaves every session and every channel as they were, no frame is ever
\* written for it, and only a valid body starts a turn.
C12_InvalidBodyRejectedUntouched ==
  /\ [](\A r \in Req :
         /\ pc[r] = "rejected" =>
              /\ ~ValidBody(body[r])
              /\ replyCode[r] = "400"
              /\ frames[r] = <<>> /\ ~ended[r]
         /\ Validated(r) => (ValidBody(body[r]) /\ replyCode[r] = Absent))
  /\ [][\A r \in Req :
          (pc[r] = "idle" /\ pc'[r] = "rejected") =>
            (sessions' = sessions /\ frames' = frames)]_vars

\* A request with an empty message rejected while the session named in its
\* body holds the messages of another turn
C12_Witness ==
  \E r \in Req :
    /\ pc[r] = "rejected"
    /\ body[r].hasMessage /\ body[r].message = <<>>
    /\ Len(History(r)) >= 2
    /\ frames[r] = <<>>

\* ----------------------------------------------------------------- C13
Roles(h) == [i \in 1..Len(h) |-> h[i].role]

InFlight(r) == pc[r] \in {"llm", "tool"}

\* C13: a session has at most one turn in flight: two requests for the same
\* session never run their turns at the same time, and no session history
\* reads user, user, assistant, assistant.
C13_OneTurnInFlightPerSession ==
  /\ \A r1, r2 \in Req :
       (r1 # r2 /\ InFlight(r1) /\ InFlight(r2)) => SessionOf(r1) # SessionOf(r2)
  /\ \A id \in DOMAIN sessions :
       \A i \in 1..(Len(sessions[id]) - 3) :
         SubSeq(Roles(sessions[id]), i, i + 3) # <<"user", "user", "assistant", "assistant">>

\* Two overlapping turns of one session have both ended: their appends are
\* interleaved in its history
C13_InterleavedHistory ==
  \E r1, r2 \in Req :
    /\ r1 # r2 /\ pc[r1] = "closed" /\ pc[r2] = "closed"
    /\ SessionOf(r1) = SessionOf(r2)
    /\ Roles(History(r1)) = <<"user", "user", "assistant", "assistant">>

\* ----------------------------------------------------------------- C14
\* C14: at the first completion call of a turn the working message sequence
\* is the session history as it was before the turn, followed by the new user
\* message exactly once.
C14_FirstCallSeesHistoryPlusUserOnce ==
  \A r \in Req :
    (pc[r] = "llm" /\ llmCalls[r] = 1) =>
      messages[r] = Append(getLangChainMessages(SessionOf(r) :> before[r], SessionOf(r)),
                           HumanMessage(body[r].message))

\* The failing case of C14: the first completion call gets the user message twice
C14_UserMessageTwice ==
  \E r \in Req :
    /\ pc[r] = "llm" /\ llmCalls[r] = 1 /\ before[r] = <<>>
    /\ messages[r] = <<HumanMessage(body[r].message), HumanMessage(body[r].message)>>

\* ----------------------------------------------------------------- C15
\* C15: two turns that start from the same session history with the same user
\* message and get the same replies from the completion engine and the tools
\* write the same frames (kinds and payloads) and commit the same messages.
C15_SameInputsSameOutcome ==
  \A r1, r2 \in Req :
    (/\ pc[r1] = "closed" /\ pc[r2] = "closed"
     /\ before[r1] = before[r2]
     /\ body[r1].message = body[r2].message
     /\ trace[r1] = trace[r2]) =>
      /\ frames[r1] = frames[r2]
      /\ Added(r1) = Added(r2)
      /\ output[r1] = output[r2]

\* Two turns on two sessions, each with a tool round that returned and the
\* same final text
C15_Witness ==
  \E r1, r2 \in Req :
    /\ r1 # r2 /\ pc[r1] = "closed" /\ pc[r2] = "closed"
    /\ SessionOf(r1) # SessionOf(r2)
    /\ before[r1] = before[r2]
    /\ trace[r1] = trace[r2] /\ Len(trace[r1]) = 3
    /\ Has(frames[r1], "tool_result") /\ Has(frames[r2], "tool_result")
    /\ Len(Added(r1)) = 2 /\ Added(r1) = Added(r2)

\* ----------------------------------------------------------------- C17
\* C17: every tool_call frame is followed by the tool_result frame of that
\* call before the next tool_call, the next completion request or done, also
\* when the tool throws or is not registered: a tool_call frame is either
\* the last frame while its tool is awaited, or directly followed by a
\* tool_result frame.
C17_EveryToolCallGetsAResult ==
  \A r \in Req :
    \A i \in 1..Len(frames[r]) :
      frames[r][i].event = "tool_call" =>
        IF i = Len(frames[r]) THEN pc[r] = "tool"
        ELSE frames[r][i + 1].event = "tool_result"

\* The failing case of C17: a tool threw, the next completion is awaited and
\* the channel holds a tool_call without any tool_result
C17_ToolCallWithoutResult ==
  \E r \in Req :
    /\ pc[r] = "llm" /\ lastEvent[r] = "tool_throw"
    /\ Count(frames[r], "tool_call") = 1 /\ Count(frames[r], "tool_result") = 0

\* ----------------------------------------------------------------- C18
\* A tool execution of request r starts in this step
ToolStarted(r) ==
  /\ pc'[r] = "tool"
  /\ pc[r] # "tool" \/ toolIdx'[r] # toolIdx[r]

\* C18: once the client has disconnected, no further frame is written for
\* the turn and no further tool execution is started; the completion in
\* flight may finish, its result is discarded.
C18_NoFramesNoToolsAfterDisconnect ==
  [][\A r \in Req :
       disconnected[r] => (frames'[r] = frames[r] /\ ~ToolStarted(r))]_vars

\* The failing case of C18: the client left during the first completion, and
\* the turn went on to run a tool and to write its frames up to done
C18_TurnRanOnAfterDisconnect ==
  \E r \in Req :
    /\ disconnected[r] /\ pc[r] = "closed"
    /\ Has(frames[r], "tool_result") /\ Has(frames[r], "token")

\* ----------------------------------------------------------------- C19
\* The events the executor has raised, read from its own data: per tool call
\* started a tool-call event, per call that returned a tool-result event with
\* the returned text, and one token event per character of the text it
\* streamed.  Of a tool-call event only the kind is kept.
RECURSIVE RoundEvents(_, _, _, _)
RoundEvents(calls, results, started, k) ==
  IF k > Len(calls) \/ k > started THEN <<>>
  ELSE <<Frame("tool_call", <<>>)>>
       \o (IF k <= Len(results) /\ results[k].content[3] = " returned: "
             THEN <<Frame("tool_result", SubSeq(results[k].content, 4, Len(results[k].content)))>>
             ELSE <<>>)
       \o RoundEvents(calls, results, started, k + 1)

RECURSIVE PastEvents(_)
PastEvents(msgs) ==
  IF msgs = <<>> THEN <<>>
  ELSE LET n == Len(Head(msgs).tool_calls) IN
       IF n > 0
         THEN RoundEvents(Head(msgs).tool_calls, SubSeq(msgs, 2, n + 1), n, 1)
              \o PastEvents(SubSeq(msgs, n + 2, Len(msgs)))
         ELSE PastEvents(Tail(msgs))

\* The executor streamed the text it returned (a final text that is not
\* empty, or the last tool result when the rounds are used up)
ExecutorStreamed(r) ==
  /\ pc[r] = "closed"
  /\ \/ lastEvent[r] = "llm_final" /\ Truthy(responseContent[r])
     \/ lastEvent[r] \in {"llm_tools", "tool_return", "tool_throw"}

Raised(r) ==
  PastEvents(messages[r])
  \o (IF pc[r] = "tool" THEN RoundEvents(toolCalls[r], toolResults[r], toolIdx[r], 1)
      ELSE <<>>)
  \o (IF ExecutorStreamed(r) THEN [i \in 1..Len(output[r]) |-> Frame("token", <<output[r][i]>>)]
      ELSE <<>>)

Normalised(fs) ==
  [i \in 1..Len(fs) |-> IF fs[i].event = "tool_call" THEN Frame("tool_call", <<>>) ELSE fs[i]]

\* C19: every event raised during a turn is written as exactly one frame,
\* in the order raised: the channel reads as the events raised so far,
\* followed by nothing but what chatRoute itself sends to end the turn; and a
\* token is forwarded as one frame whatever its text, the empty string
\* included.
C19_OneFramePerEventInOrder ==
  \A r \in Req :
    LET n == Len(Raised(r))
        fs == frames[r]
        rest == Kinds(SubSeq(fs, n + 1, Len(fs)))
    IN  /\ Len(fs) >= n
        /\ Normalised(SubSeq(fs, 1, n)) = Raised(r)
        /\ rest \in {<<>>, <<"done">>, <<"token", "done">>, <<"error", "done">>}
        /\ ExecutorStreamed(r) => rest = <<"done">>
        /\ \A token \in Texts :
             handleLLMNewToken(SinkOf(r), token).frames = Append(fs, Frame("token", token))

\* A turn whose first tool threw and whose second returned, ended with a
\* streamed text of two characters
C19_Witness ==
  \E r \in Req :
    /\ pc[r] = "closed" /\ lastEvent[r] = "llm_final"
    /\ Kinds(frames[r]) = <<"tool_call", "tool_call", "tool_result", "token", "token", "done">>
    /\ Len(Raised(r)) = 5

\* ----------------------------------------------------------------- C20
\* C20: when a completion carries no valid tool call but invalid ones, their
\* string payloads are parsed and they are run as tool calls, the first one
\* at once, with no error frame and no change of the session; only when a
\* payload cannot be parsed does the turn end, with an error frame, then
\* done, no tool run and no assistant message committed.
C20_InvalidCallsCoercedOrTurnEnds ==
  [][\A r \in Req :
       (Len(trace'[r]) = Len(trace[r]) + 1) =>
         LET e == trace'[r][Len(trace'[r])]
             n == Len(frames[r])
         IN  IF e.reply # "response" THEN TRUE
             ELSE LET invalid == e.response.invalid_tool_calls IN
               (Len(e.response.tool_calls) = 0 /\ Len(invalid) > 0) =>
                 IF \A i \in 1..Len(invalid) : invalid[i].args = "string:json"
                   THEN /\ toolCalls'[r] = [i \in 1..Len(invalid) |->
                                              [name |-> invalid[i].name, args |-> "object"]]
                        /\ pc'[r] \in {"tool", "llm"}
                        /\ Len(frames'[r]) > n
                        /\ frames'[r][n + 1].event = "tool_call"
                        /\ frames'[r][n + 1].data.input = "object"
                        /\ ~Has(frames'[r], "error")
                        /\ sessions' = sessions
                   ELSE /\ pc'[r] = "closed"
                        /\ Kinds(SubSeq(frames'[r], n + 1, Len(frames'[r]))) = <<"error", "done">>
                        /\ SubSeq(frames'[r], 1, n) = frames[r]
                        /\ toolCalls'[r] = toolCalls[r]
                        /\ sessions' = sessions]_vars

\* The first completion carried only invalid tool calls with parseable
\* payloads; the first of them was run and has returned
C20_Witness ==
  \E r \in Req :
    /\ Len(trace[r]) >= 2
    /\ trace[r][1].reply = "response"
    /\ Len(trace[r][1].response.tool_calls) = 0
    /\ Len(trace[r][1].response.invalid_tool_calls) > 0
    /\ trace[r][2].reply = "tool_return"
    /\ Kinds(SubSeq(frames[r], 1, 2)) = <<"tool_call", "tool_result">>

\* ----------------------------------------------------------------- C21
\* C21: sessions are mutated by appends only: in every step each existing
\* session is still there and its history has the earlier history as a
\* prefix (so every later history extends every earlier one).
C21_SessionsAppendOnly ==
  [][\A id \in DOMAIN sessions :
       /\ id \in DOMAIN sessions'
       /\ Len(sessions'[id]) >= Len(sessions[id])
       /\ SubSeq(sessions'[id], 1, Len(sessions[id])) = sessions[id]]_vars

\* Two turns have run on one session, one after the other
C21_Witness ==
  \E id \in DOMAIN sessions :
    Roles(sessions[id]) = <<"user", "assistant", "user", "assistant">>

\* ----------------------------------------------------------------- C22
\* C22: when the final completion carries a non-empty text T, the executor
\* raises one token per character of T, in the order of the text: after any
\* tool frames the channel holds Len(T) token frames, the i-th carrying the
\* i-th character, and T is the output the executor returns.
C22_FinalTextStreamedByCharacter ==
  \A r \in Req :
    (pc[r] = "closed" /\ lastEvent[r] = "llm_final" /\ Truthy(responseContent[r])) =>
      LET T == responseContent[r]
          tokens == SelectSeqOf(frames[r], {"token"})
      IN  /\ Len(tokens) = Len(T)
          /\ \A i \in 1..Len(T) : tokens[i].data = <<T[i]>>
          /\ TokenText(frames[r]) = T
          /\ output[r] = T
          /\ tokensStreamed[r] /\ streamedContent[r] = T

\* A final text of a letter and a blank, without any tool round
C22_Witness ==
  \E r \in Req :
    /\ pc[r] = "closed" /\ lastEvent[r] = "llm_final" /\ ~RequestedTool(r)
    /\ responseContent[r] = <<"a", " ">>
    /\ Kinds(frames[r]) = <<"token", "token", "done">>

\* ----------------------------------------------------------------- C23
\* The tool-result messages that follow the tool-call record at position i
ResultsOfRound(r, i) ==
  SubSeq(messages[r], i + 1, i + Len(messages[r][i].tool_calls))

\* C23: in every state of the loop, each tool-result message of the working
\* sequence stands after the assistant message that recorded its call, at
\* the position of that call: an assistant tool-call message with n calls is
\* directly followed by n tool-result messages, the k-th for the k-th call,
\* no tool-result message stands elsewhere, and a round only adds to the end
\* of the sequence.
C23_ToolResultFollowsItsToolCall ==
  /\ [](\A r \in Req :
         LET m == messages[r] IN
         /\ \A i \in ToolRecords(r) :
              /\ i + Len(m[i].tool_calls) <= Len(m)
              /\ \A k \in 1..Len(m[i].tool_calls) :
                   /\ IsToolResult(m[i + k], m[i].tool_calls[k].name)
                   /\ i + k \notin ToolRecords(r)
         /\ \A j \in 1..Len(m) :
              (\E name \in ToolNames : IsToolResult(m[j], name)) =>
                \E i \in ToolRecords(r) :
                  /\ i < j /\ j <= i + Len(m[i].tool_calls)
                  /\ IsToolResult(m[j], m[i].tool_calls[j - i].name))
  /\ [][\A r \in Req :
          (messages'[r] # messages[r] /\ messages[r] # <<>>) =>
            /\ Len(messages'[r]) = Len(messages[r]) + 1 + Len(toolCalls'[r])
            /\ SubSeq(messages'[r], 1, Len(messages[r])) = messages[r]
            /\ messages'[r][Len(messages[r]) + 1] = AIMessage(responseContent'[r], toolCalls'[r])
            /\ SubSeq(messages'[r], Len(messages[r]) + 2, Len(messages'[r])) = toolResults'[r]]_vars

\* Two rounds of two calls each are in the working sequence, with results of
\* both kinds, and the third completion is awaited
C23_Witness ==
  \E r \in Req :
    /\ pc[r] = "llm" /\ Cardinality(ToolRecords(r)) = 2
    /\ \A i \in ToolRecords(r) :
         /\ Len(messages[r][i].tool_calls) = 2
         /\ ResultsOfRound(r, i)[1].content[3] = " error: "
         /\ ResultsOfRound(r, i)[2].content[3] = " returned: "

\* ----------------------------------------------------------------- C24
\* Request r gets a completion in this step, and the first of its tool calls
\* names no registered tool
NotFoundStep(r) ==
  /\ pc[r] = "llm"
  /\ toolCalls'[r] # toolCalls[r] \/ llmCalls'[r] # llmCalls[r] \/ pc'[r] = "tool"
  /\ Len(toolCalls'[r]) > 0
  /\ toolCalls'[r][1].name \notin RegisteredTools
  /\ lastEvent'[r] = "llm_tools"

\* C24: a tool call that names a tool absent from the registry does not
\* abort the turn: a tool_call frame is written for it, the message
\* "Tool <name> error: Tool <name> not found" becomes the result of that
\* call, no error frame is written, and the loop goes on with the next call
\* of the round or, the round over, with the next completion.
C24_UnknownToolDoesNotAbort ==
  /\ [](\A r \in Req : \A i \in ToolRecords(r) :
         \A k \in 1..Len(messages[r][i].tool_calls) :
           LET name == messages[r][i].tool_calls[k].name IN
           name \notin RegisteredTools =>
             /\ i + k <= Len(messages[r])
             /\ messages[r][i + k].content =
                  <<"Tool ", name, " error: ", "Tool ", name, " not found">>)
  /\ [][\A r \in Req :
       NotFoundStep(r) =>
         LET name == toolCalls'[r][1].name
             n == Len(frames[r])
         IN  /\ Len(frames'[r]) > n
             /\ frames'[r][n + 1].event = "tool_call"
             /\ ~Has(frames'[r], "error")
             /\ Len(toolResults'[r]) >= 1
             /\ toolResults'[r][1] =
                  AIMessage(<<"Tool ", name, " error: ", "Tool ", name, " not found">>, <<>>)
             /\ \/ pc'[r] = "tool" /\ toolIdx'[r] > 1
                \/ /\ Len(toolResults'[r]) = Len(toolCalls'[r])
                   /\ IF iterations[r] < 5 THEN pc'[r] = "llm" /\ llmCalls'[r] = llmCalls[r] + 1
                      ELSE pc'[r] = "closed" /\ ~Has(frames'[r], "error")]_vars

\* An unregistered name came first in a round, and the registered tool named
\* second is now awaited
C24_Witness ==
  \E r \in Req :
    /\ pc[r] = "tool" /\ toolIdx[r] = 2
    /\ toolCalls[r][1].name \notin RegisteredTools
    /\ toolResults[r][1].content = <<"Tool ", "nope", " error: ", "Tool ", "nope", " not found">>
    /\ Kinds(frames[r]) = <<"tool_call", "tool_call">>

\* ----------------------------------------------------------------- C25
\* C25: when the round budget is used up, the text returned, streamed and
\* committed is the content of the last message of the working sequence,
\* the last tool-result message of round 5; the fixed text about the maximum
\* number of tool calls is not used, that content never being empty.
C25_BudgetExhaustedAnswerIsLastToolResult ==
  \A r \in Req :
    (pc[r] = "closed" /\ Cardinality(ToolRecords(r)) = 5) =>
      LET m == messages[r]
          last == m[Len(m)]
      IN  /\ \E name \in ToolNames : IsToolResult(last, name)
          /\ Truthy(last.content)
          /\ output[r] = last.content
          /\ output[r] # MAX_ITERATIONS_OUTPUT
          /\ TokenText(frames[r]) = last.content
          /\ Count(frames[r], "token") = Len(last.content)
          /\ History(r)[Len(History(r))] = ChatMessage("assistant", last.content)

\* Round 5 ended with a tool that returned, and its result text is the answer
C25_Witness ==
  \E r \in Req :
    /\ pc[r] = "closed" /\ Cardinality(ToolRecords(r)) = 5 /\ lastEvent[r] = "tool_return"
    /\ output[r] = <<"Tool ", "calc", " returned: ", "X">>

\* ----------------------------------------------------------------- C26
\* C26: in every turn that ends without an error frame, the concatenation of
\* the token frames equals the content of the assistant message the turn
\* committed: nothing is committed unsent, sent uncommitted, or sent twice.
C26_TokensEqualCommittedMessage ==
  \A r \in Req :
    (pc[r] = "closed" /\ ~Has(frames[r], "error")) =>
      /\ Len(Added(r)) = 2
      /\ Added(r)[2].role = "assistant"
      /\ TokenText(frames[r]) = Added(r)[2].content

\* The failing case of C26 after a tool round: the final text is one blank,
\* sent as it is and committed in JSON quotes
C26_BlankAnswerCommittedQuoted ==
  \E r \in Req :
    /\ pc[r] = "closed" /\ RequestedTool(r) /\ ~Has(frames[r], "error")
    /\ TokenText(frames[r]) = <<" ">>
    /\ Added(r)[2].content = <<"\"", " ", "\"">>

\* ----------------------------------------------------------------- C27
\* C27: a turn that writes an error frame appends no assistant message: the
\* step that writes the frame leaves every session as it was, and when the
\* turn is over the session holds, of this turn, the user message if the
\* executor had been started, and nothing otherwise.
C27_ErrorTurnCommitsNothing ==
  /\ [](\A r \in Req :
         Has(frames[r], "error") =>
           /\ pc[r] = "closed"
           /\ Added(r) = IF messages[r] # <<>> THEN <<UserMessage(r)>> ELSE <<>>
           /\ \A i \in 1..Len(Added(r)) : Added(r)[i].role # "assistant")
  /\ [][\A r \in Req :
          (Has(frames'[r], "error") /\ ~Has(frames[r], "error")) => sessions' = sessions]_vars

\* A turn ended by an exception in its second round: the user message is
\* the last entry of the session
C27_Witness ==
  \E r \in Req :
    /\ Has(frames[r], "error") /\ Has(frames[r], "tool_result")
    /\ llmCalls[r] = 2
    /\ History(r) = <<UserMessage(r)>>

\* ----------------------------------------------------------------- C28
\* C28: a turn changes no session but its own, whatever the interleaving of
\* two turns: a step changes or creates a session only if it is a step of a
\* request with a valid body for that session; and no session exists
\* without a message, a read never creating one.
C28_TurnTouchesOnlyItsSession ==
  /\ [](\A id \in DOMAIN sessions :
         /\ Len(sessions[id]) >= 1
         /\ \E r \in Req : Validated(r) /\ SessionOf(r) = id
         /\ getHistory(sessions, id) = sessions[id])
  /\ [](\A id \in SessionIds \ DOMAIN sessions : getHistory(sessions, id) = <<>>)
  /\ [][\A id \in DOMAIN sessions' :
          (id \notin DOMAIN sessions \/ sessions'[id] # getHistory(sessions, id)) =>
            \E r \in Req :
              /\ pc'[r] # pc[r]
              /\ ValidBody(body'[r])
              /\ id = IF body'[r].sessionId = Absent THEN DefaultSession
                       ELSE body'[r].sessionId]_vars

\* One turn has ended on a session while a turn on the other session is in
\* flight
C28_Witness ==
  \E r1, r2 \in Req :
    /\ pc[r1] = "closed" /\ InFlight(r2)
    /\ SessionOf(r1) # SessionOf(r2)
    /\ Roles(History(r1)) = <<"user", "assistant">>
    /\ Roles(History(r2)) = <<"user">>

\* ----------------------------------------------------------------- C29
\* The text the tokens of a response spell
RECURSIVE Concat(_)
Concat(tokens) ==
  IF tokens = <<>> THEN <<>> ELSE Head(tokens) \o Concat(Tail(tokens))

\* Everything the server wrote for turn c has been read and processed
Consumed(c) ==
  clients[c].pc \in {"reading", "over"} /\ clients[c].wire = <<>>

\* C29: when the client has read everything the server wrote, the token
\* payloads SSEClient delivered to its listeners are the tokens the server
\* wrote with sendToken, in order, and the assistant message useChatStream
\* assembled is their concatenation; this for tokens such as one blank, the
\* empty string, a string with a newline and the string "{}".
C29_TokensArriveAsSent ==
  \A c \in Turn :
    Consumed(c) =>
      /\ clients[c].delivered = clients[c].sent
      /\ c \in DOMAIN hook.content
      /\ hook.content[c] = Concat(clients[c].sent)

\* The failing case of C29: the server sent "a" and then one blank, the turn
\* is over, and the listeners were given "a" only
C29_BlankTokenLost ==
  \E c \in Turn :
    /\ clients[c].pc = "over"
    /\ clients[c].sent = << <<"a">>, <<" ">> >>
    /\ clients[c].delivered = << <<"a">> >>
    /\ hook.content[c] = <<"a">>

\* ----------------------------------------------------------------- C30
\* The turns whose listeners can still act on the hook
TurnsInFlight ==
  {c \in Turn : clients[c].pc \in {"fetching", "reading"} /\ clients[c].listeners}

\* C30: at most one turn of the hook is in flight at any time, and once the
\* stream of the turn started last is over (a done frame and the end of the
\* body, an error frame, a failed fetch, a body that ends without a done
\* frame) isLoading is false again.
C30_OneTurnAndLoadingEnds ==
  /\ Cardinality(TurnsInFlight) <= 1
  /\ \A c \in Turn :
       (hook.started = c /\ clients[c].pc = "over") => ~hook.isLoading

\* The failing case of C30: the stream of the turn ended after Clear Chat had
\* removed its listeners, and the hook is loading for good
C30_LoadingForGood ==
  \E c \in Turn :
    /\ hook.started = c
    /\ clients[c].pc = "over"
    /\ ~clients[c].listeners
    /\ hook.sseClientRef = 0
    /\ clients[c].wire = <<>>
    /\ hook.isLoading

====
